---- MODULE Spec2Model ----
(***************************************************************************)
(* ECHO-COVID19.ipynb as a state machine.  The state is the notebook       *)
(* kernel's namespace (the DataFrames and scalars the cells bind); there   *)
(* is one action per code cell.  A session works through one section of    *)
(* the notebook from a freshly set-up kernel: its fetch cell, then its     *)
(* cells in document order, each cell free to be run again before the      *)
(* next one; RestartKernel returns to the fresh kernel.                    *)
(*                                                                         *)
(* Encoding of pandas values                                               *)
(*   cell value   <<>> is null/NaN, <<v>> is the value v                   *)
(*   date         [kind |-> "str", f |-> <<m, d, y>>]  the text MM/DD/YYYY *)
(*                [kind |-> "ts",  f |-> <<y, m, d>>]  a Timestamp         *)
(*   index label  [kind |-> "str", f |-> <<y, m>>]     the text YYYY-MM    *)
(*   table        sequence of rows [id, date, val, desc]; id is the index  *)
(*                column, val the counted/measured column, desc the        *)
(*                description column as a sequence of words                *)
(*   series       sequence of entries [key, value, nan]                    *)
(*   mean         [sum, n]: the rational sum/n, NaN when n = 0             *)
(* Plot rendering (DataFrame.plot, axhline, folium drawing) is not         *)
(* modelled.                                                               *)
(***************************************************************************)
EXTENDS Integers, Sequences, FiniteSets, TLC

\* ---------------------------------------------------------------- bounds
MaxRows == 2

Years == 2017..2020
Days == {5, 20}
Facs == {"F1", "F2"}

\* ------------------------------------------------------ program constants
TargetMonth == 4

AnalysisYear == 2020

Notice == "Actually, there were no reporting violations for April"

RecentLabels ==
  << [kind |-> "str", f |-> <<2017, 4>>],
     [kind |-> "str", f |-> <<2018, 4>>],
     [kind |-> "str", f |-> <<2019, 4>>] >>

VARIABLES last, err, stdout, data, exceeds,
          stacks, airviols, cps, cps_map, month, facilities, med, lead,
          by_date, latest, echo_data, trend, trend_month, trend_lead,
          map_of_facilities

vars == << last, err, stdout, data, exceeds,
           stacks, airviols, cps, cps_map, month, facilities, med, lead,
           by_date, latest, echo_data, trend, trend_month, trend_lead,
           map_of_facilities >>

\* ------------------------------------------------------------ generic helpers
SeqsUpTo(S, n) == UNION {[1..k -> S] : k \in 0..n}

RECURSIVE SetSum(_, _)
SetSum(S, f) ==
  IF S = {} THEN 0
  ELSE LET x == CHOOSE y \in S : TRUE IN f[x] + SetSum(S \ {x}, f)

RECURSIVE SeqSum(_)
SeqSum(s) == IF s = <<>> THEN 0 ELSE Head(s) + SeqSum(Tail(s))

Min(S) == CHOOSE x \in S : \A y \in S : x <= y

Max(S) == CHOOSE x \in S : \A y \in S : x >= y

IsNull(c) == c = <<>>

NaNMean == [sum |-> 0, n |-> 0]

\* ------------------------------------------------------------ dates
RawDate(m, d, y) == [kind |-> "str", f |-> <<m, d, y>>]

Timestamp(y, m, d) == [kind |-> "ts", f |-> <<y, m, d>>]

\* pd.to_datetime(x, format="%m/%d/%Y"): text is parsed field by field; a
\* value that is already a Timestamp is returned as it is.
to_datetime(x) ==
  IF x.kind = "str" THEN Timestamp(x.f[3], x.f[1], x.f[2]) ELSE x

\* mutant: the rows without a value are dropped from the table while parsing
ParseColumnDropNull(t) ==
  LET u == SelectSeq(t, LAMBDA r : r.val # <<>>)
  IN [i \in DOMAIN u |-> [u[i] EXCEPT !.date = to_datetime(@)]]

\* data[col] = pd.to_datetime(data[col], ...): the column is replaced in place
ParseColumn(t) == [i \in DOMAIN t |-> [t[i] EXCEPT !.date = to_datetime(@)]]

MonthIdx(ts) == ts.f[1] * 12 + (ts.f[2] - 1)

DaysInMonth(y, m) ==
  IF m = 2
  THEN (IF (y % 4 = 0 /\ y % 100 # 0) \/ y % 400 = 0 THEN 29 ELSE 28)
  ELSE IF m \in {4, 6, 9, 11} THEN 30 ELSE 31

\* label of a resample('M') bin: the last day of the month
MonthEnd(ix) ==
  Timestamp(ix \div 12, (ix % 12) + 1, DaysInMonth(ix \div 12, (ix % 12) + 1))

\* Timestamp comparison, as used by the date-range selections
DateLeq(a, b) ==
  \/ a.f[1] < b.f[1]
  \/ a.f[1] = b.f[1] /\ a.f[2] < b.f[2]
  \/ a.f[1] = b.f[1] /\ a.f[2] = b.f[2] /\ a.f[3] <= b.f[3]

DateLt(a, b) == DateLeq(a, b) /\ a # b

\* DatetimeIndex.strftime('%Y-%m')
strftime(ts) == [kind |-> "str", f |-> <<ts.f[1], ts.f[2]>>]

\* ------------------------------------------------------------ aggregation
\* Series.str.contains(word) after astype(str): a null description has no word
Contains(row, word) == \E i \in DOMAIN row.desc : row.desc[i] = word

\* groupby([date])[col].count(): one entry per distinct date, counting the
\* rows of that date whose col is not null
groupby_count(t, col) ==
  [d \in {t[i].date : i \in DOMAIN t} |->
     Cardinality({i \in DOMAIN t : t[i].date = d /\ ~IsNull(t[i][col])})]

\* groupby([date]).agg({"NPDES_ID": "nunique"}): distinct ids per date
groupby_nunique(t) ==
  [d \in {t[i].date : i \in DOMAIN t} |->
     Cardinality({t[i].id : i \in {j \in DOMAIN t : t[j].date = d}})]

\* mutant: only the months that hold a date get a bin
resample_sum_nogaps(daily) ==
  LET ks == DOMAIN daily
      ms == {MonthIdx(d) : d \in ks}
      kth(k) == CHOOSE m \in ms : Cardinality({x \in ms : x < m}) = k - 1
  IN [k \in 1..Cardinality(ms) |->
        [key   |-> MonthEnd(kth(k)),
         value |-> SetSum({d \in ks : MonthIdx(d) = kth(k)}, daily),
         nan   |-> FALSE]]

\* mutant: the bins come out latest month first
resample_sum_descending(daily) ==
  LET ks == DOMAIN daily
  IN IF ks = {} THEN <<>>
     ELSE LET lo == Min({MonthIdx(d) : d \in ks})
              hi == Max({MonthIdx(d) : d \in ks})
          IN [k \in 1..(hi - lo + 1) |->
                [key   |-> MonthEnd(hi - k + 1),
                 value |-> SetSum({d \in ks : MonthIdx(d) = hi - k + 1}, daily),
                 nan   |-> FALSE]]

\* resample('M').sum(): one bin per calendar month from the month of the
\* earliest date to the month of the latest date; an empty bin sums to 0
resample_sum(daily) ==
  LET ks == DOMAIN daily
  IN IF ks = {} THEN <<>>
     ELSE LET lo == Min({MonthIdx(d) : d \in ks})
              hi == Max({MonthIdx(d) : d \in ks})
          IN [k \in 1..(hi - lo + 1) |->
                [key   |-> MonthEnd(lo + k - 1),
                 value |-> SetSum({d \in ks : MonthIdx(d) = lo + k - 1}, daily),
                 nan   |-> FALSE]]

\* twice the median of a non-empty sequence of numbers (the median of an even
\* number of values is the mean of the two middle ones)
Median2(vs) ==
  LET s == SortSeq(vs, LAMBDA a, b : a < b)
      n == Len(s)
  IN IF n % 2 = 1 THEN 2 * s[(n + 1) \div 2] ELSE s[n \div 2] + s[(n \div 2) + 1]

\* t.set_index(date).resample('M').median(), the numeric column: one bin per
\* calendar month from the earliest to the latest date, the median of the
\* non-null values of the bin, NaN for a bin without any.  The entry carries
\* twice the median, to stay in the integers.
resample_median(t) ==
  IF t = <<>> THEN <<>>
  ELSE LET lo == Min({MonthIdx(t[i].date) : i \in DOMAIN t})
           hi == Max({MonthIdx(t[i].date) : i \in DOMAIN t})
           bin(ix) == SelectSeq(t, LAMBDA r : MonthIdx(r.date) = ix
                                              /\ ~IsNull(r.val))
       IN [k \in 1..(hi - lo + 1) |->
             LET b == bin(lo + k - 1)
             IN [key   |-> MonthEnd(lo + k - 1),
                 value |-> IF b = <<>> THEN 0
                           ELSE Median2([i \in DOMAIN b |-> b[i].val[1]]),
                 nan   |-> b = <<>>]]

\* mutant: the month filter is left out
FilterNone(s) == s

\* s.loc[(s.index.month == 4)]
FilterApril(s) == SelectSeq(s, LAMBDA e : e.key.f[2] = TargetMonth)

\* s.index = s.index.strftime('%Y-%m')
FormatIndex(s) == [i \in DOMAIN s |-> [s[i] EXCEPT !.key = strftime(@)]]

\* the count pipeline common to the chart cells
MonthlyCount(t, col) ==
  FormatIndex(FilterApril(resample_sum(groupby_count(t, col))))

\* Series.mean(): NaN entries are skipped, the mean of nothing is NaN
mean(s) ==
  LET vs == SelectSeq(s, LAMBDA e : ~e.nan)
  IN [sum |-> SeqSum([i \in DOMAIN vs |-> vs[i].value]), n |-> Len(vs)]

HasKey(s, k) == \E i \in DOMAIN s : s[i].key = k

\* s.loc[k] for a key that is present
loc(s, k) == s[CHOOSE i \in DOMAIN s : s[i].key = k]

\* every label of the recent-trend baseline is in the index
HasRecent(s) == \A j \in DOMAIN RecentLabels : HasKey(s, RecentLabels[j])

\* mutant: the mean of the last three entries of the series
RecentTrendLast3(s) == mean(SubSeq(s, Len(s) - 2, Len(s)))

\* pd.concat([s.loc["2017-04"], s.loc["2018-04"], s.loc["2019-04"]])[col].mean()
RecentTrend(s) == mean([j \in DOMAIN RecentLabels |-> loc(s, RecentLabels[j])])

\* ------------------------------------------------------------ input tables
Row(id, y, d, val, desc) ==
  [id |-> id, date |-> RawDate(TargetMonth, d, y), val |-> val, desc |-> desc]

\* ICIS-AIR_STACK_TESTS where ACTUAL_END_DATE like '04/%'; val is STATE_EPA_FLAG
StackRows ==
  {Row("F1", y, d, v, <<>>) : y \in Years, d \in Days, v \in {<<>>, <<"Y">>}}

\* ICIS-AIR_VIOLATION_HISTORY where HPV_DAYZERO_DATE like '04-%'; val is
\* ENF_RESPONSE_POLICY_CODE, desc is POLLUTANT_DESCS
AirRows ==
  {Row(id, y, 5, <<"HPV">>, p) :
     id \in Facs, y \in Years, p \in {<<"Sulfur", "dioxide">>, <<"Ozone">>}}

\* NPDES_EFF_VIOLATIONS where EXCEEDENCE_PCT > 0 and MONITORING_PERIOD_END_DATE
\* like '04/%'; val is EXCEEDENCE_PCT, desc is PARAMETER_DESC
WaterRows ==
  {Row(id, y, d, m[1], m[2]) :
     id \in Facs, y \in Years, d \in Days,
     m \in {<< <<10>>, <<"Lead">> >>, << <<30>>, <<"Zinc">> >>}}

\* NPDES_PS_VIOLATIONS where RNC_DETECTION_CODE = 'N' and SCHEDULE_DATE like
\* '04/%'; val is RNC_DETECTION_CODE
RncRows == {Row(id, y, 5, <<"N">>, <<>>) : id \in Facs, y \in Years}

NoSeries == [index |-> "none", rows |-> <<>>]

Init ==
  /\ last = 3
  /\ err = "none"
  /\ stdout = ""
  /\ data = <<>>
  /\ exceeds = <<>>
  /\ stacks = <<>>
  /\ airviols = <<>>
  /\ cps = <<>>
  /\ cps_map = <<>>
  /\ month = <<>>
  /\ facilities = <<>>
  /\ med = <<>>
  /\ lead = <<>>
  /\ by_date = NoSeries
  /\ latest = [joined |-> FALSE, rows |-> <<>>]
  /\ echo_data = <<>>
  /\ trend = NaNMean
  /\ trend_month = NaNMean
  /\ trend_lead = NaNMean
  /\ map_of_facilities = <<>>

\* ------------------------------------------------------------ facilities
\* ECHO_EXPORTER rows, indexed by the facility identifier (AIR_IDS, NPDES_IDS):
\* FAC_NAME, FAC_LAT, FAC_LONG and the quarters-in-non-compliance count.  The
\* table is taken to hold one row per identifier.
FacAttrs(id) ==
  [name : {<<"Acme Plant">>}, lat : {<<>>, <<40>>}, lon : {<<>>, <<-74>>},
   qtrs : {IF id = "F1" THEN <<0>> ELSE <<1>>}]

EchoTables ==
  UNION {{e \in [S -> UNION {FacAttrs(id) : id \in S}] :
            \A id \in S : e[id] \in FacAttrs(id)} : S \in SUBSET Facs}

NoFacility == [name |-> <<>>, lat |-> <<>>, lon |-> <<>>, qtrs |-> <<>>]

Merged(r, a) ==
  [id |-> r.id, date |-> r.date, val |-> r.val, desc |-> r.desc,
   name |-> a.name, lat |-> a.lat, lon |-> a.lon, qtrs |-> a.qtrs,
   quartile |-> <<>>]

\* mutant: how='inner', rows without a match are dropped
inner_join(t, e) ==
  LET u == SelectSeq(t, LAMBDA r : r.id \in DOMAIN e)
  IN [i \in DOMAIN u |-> Merged(u[i], e[u[i].id])]

\* DataFrame.join(other): joins on the index, how='left' by default, so every
\* row of the caller is kept and a row without a match gets NaN in the
\* columns of other
join(t, e) ==
  [i \in DOMAIN t |->
     IF t[i].id \in DOMAIN e THEN Merged(t[i], e[t[i].id])
     ELSE Merged(t[i], NoFacility)]

\* the body of the two facility cells after the selection of latest
JoinOrNotice(sel) ==
  IF Len(sel) > 0
  THEN \E e \in EchoTables :
         /\ echo_data' = e
         /\ latest' = [joined |-> TRUE, rows |-> join(sel, e)]
         /\ stdout' = ""
  ELSE /\ latest' = [joined |-> FALSE, rows |-> sel]
       /\ stdout' = Notice
       /\ UNCHANGED echo_data

\* pd.qcut(x, 4, labels=False): the bin edges are the quantiles 0, 1/4, .. 1
\* of the non-null values, linearly interpolated; Edge4 is four times the edge
Edge4(s, k) ==
  LET n  == Len(s)
      p  == k * (n - 1)
      lo == (p \div 4) + 1
      hi == IF lo < n THEN lo + 1 ELSE lo
  IN 4 * s[lo] + (p % 4) * (s[hi] - s[lo])

QtrsSorted(rows) ==
  LET vs == SelectSeq(rows, LAMBDA r : ~IsNull(r.qtrs))
  IN SortSeq([i \in DOMAIN vs |-> vs[i].qtrs[1]], LAMBDA a, b : a < b)

\* qcut raises ValueError unless the five edges are distinct
QcutOk(rows) ==
  LET s == QtrsSorted(rows)
  IN Len(s) > 0 /\ \A k \in 1..4 : Edge4(s, k - 1) < Edge4(s, k)

qcut(rows) ==
  LET s == QtrsSorted(rows)
      code(v) == IF 4 * v = Edge4(s, 0) THEN 0
                 ELSE Cardinality({k \in 0..4 : Edge4(s, k) < 4 * v}) - 1
  IN [i \in DOMAIN rows |->
        [rows[i] EXCEPT !.quartile =
           IF IsNull(rows[i].qtrs) THEN <<>> ELSE <<code(rows[i].qtrs[1])>>]]

radii == <<6, 10, 14, 20>>

\* mapper(df): one CircleMarker per row of df, in row order
mapper(rows) ==
  [i \in DOMAIN rows |->
     [id |-> rows[i].id, lat |-> rows[i].lat, lon |-> rows[i].lon,
      radius |-> radii[rows[i].quartile[1] + 1]]]

\* the exception one CircleMarker call raises, if any: str concatenation with
\* a NaN name, radii[NaN] for a row without quartile, then folium's refusal of
\* a location that contains NaN
RowError(r) ==
  IF IsNull(r.name) THEN "TypeError"
  ELSE IF IsNull(r.quartile) THEN "KeyError"
  ELSE IF IsNull(r.lat) \/ IsNull(r.lon) THEN "ValueError"
  ELSE "none"

\* the exception mapper raises, if any: folium.Map refuses a NaN mean
\* coordinate (a column without a value), then the first row that fails
MapperError(rows) ==
  LET bad == {i \in DOMAIN rows : RowError(rows[i]) # "none"}
  IN IF \/ \A i \in DOMAIN rows : IsNull(rows[i].lat)
        \/ \A i \in DOMAIN rows : IsNull(rows[i].lon)
     THEN "ValueError"
     ELSE IF bad = {} THEN "none" ELSE RowError(rows[Min(bad)])

\* mutant: the missing-data filter is left out
KeepAll(r) == TRUE

\* latest[~isnan(FAC_LAT) | ~isnan(FAC_LONG)]: a row stays when either
\* coordinate is present
KeepRow(r) == ~IsNull(r.lat) \/ ~IsNull(r.lon)

\* the body of the two map cells: the NaN filter, the quartile column, mapper.
\* latest["FAC_LAT"] raises KeyError when latest was never joined.
MakeMap ==
  IF ~latest.joined
  THEN err' = "KeyError" /\ UNCHANGED << latest, map_of_facilities >>
  ELSE LET kept == SelectSeq(latest.rows, KeepRow)
       IN IF ~QcutOk(kept)
          THEN /\ latest' = [latest EXCEPT !.rows = kept]
               /\ err' = "ValueError"
               /\ UNCHANGED map_of_facilities
          ELSE /\ latest' = [latest EXCEPT !.rows = qcut(kept)]
               /\ err' = MapperError(qcut(kept))
               /\ IF MapperError(qcut(kept)) = "none"
                  THEN map_of_facilities' = mapper(qcut(kept))
                  ELSE UNCHANGED map_of_facilities

\* The tail of every chart cell: the all-time mean, then the recent-trend mean.
\* .loc of a label that is not in the index raises KeyError and the cell
\* stops there, trend_month keeping its earlier binding.
Baselines(s) ==
  /\ trend' = mean(s)
  /\ IF HasRecent(s)
     THEN trend_month' = RecentTrend(s) /\ err' = "none"
     ELSE trend_month' = trend_month /\ err' = "KeyError"

\* ------------------------------------------------------------ stack tests
\* cell 6
FetchStackTests ==
  /\ last = 3
  /\ data' \in SeqsUpTo(StackRows, MaxRows)
  /\ last' = 6
  /\ err' = "none"
  /\ stdout' = ""
  /\ UNCHANGED << exceeds, stacks, airviols, cps, cps_map, month, facilities,
                  med, lead, by_date, latest, echo_data, trend, trend_month,
                  trend_lead, map_of_facilities >>

\* cell 8
ChartStackTests ==
  /\ last \in {6, 8}
  /\ data' = ParseColumn(data)
  /\ stacks' = MonthlyCount(data', "val")
  /\ Baselines(stacks')
  /\ last' = 8
  /\ stdout' = ""
  /\ UNCHANGED << exceeds, airviols, cps, cps_map, month, facilities, med,
                  lead, by_date, latest, echo_data, trend_lead,
                  map_of_facilities >>

\* ------------------------------------------------------------ air violations
\* cell 10
FetchAirViolations ==
  /\ last = 3
  /\ data' \in SeqsUpTo(AirRows, MaxRows)
  /\ last' = 10
  /\ err' = "none"
  /\ stdout' = ""
  /\ UNCHANGED << exceeds, stacks, airviols, cps, cps_map, month, facilities,
                  med, lead, by_date, latest, echo_data, trend, trend_month,
                  trend_lead, map_of_facilities >>

\* cell 12
ChartAirViolations ==
  /\ last \in {10, 12}
  /\ data' = ParseColumn(data)
  /\ airviols' = MonthlyCount(data', "val")
  /\ Baselines(airviols')
  /\ last' = 12
  /\ stdout' = ""
  /\ UNCHANGED << exceeds, stacks, cps, cps_map, month, facilities, med,
                  lead, by_date, latest, echo_data, trend_lead,
                  map_of_facilities >>

\* cell 14
ChartCriteriaPollutants ==
  /\ last \in {12, 14}
  /\ data' = ParseColumn(data)
  /\ cps_map' = SelectSeq(data', LAMBDA r : Contains(r, "Particulate")
                                            \/ Contains(r, "Sulfur"))
  /\ cps' = MonthlyCount(cps_map', "desc")
  /\ Baselines(cps')
  /\ last' = 14
  /\ stdout' = ""
  /\ UNCHANGED << exceeds, stacks, airviols, month, facilities, med,
                  lead, by_date, latest, echo_data, trend_lead,
                  map_of_facilities >>

\* cell 16
JoinAirFacilities ==
  /\ last \in {14, 16}
  /\ LET sel == SelectSeq(cps_map, LAMBDA r :
                    /\ DateLeq(Timestamp(AnalysisYear, 4, 1), r.date)
                    /\ DateLt(r.date, Timestamp(AnalysisYear, 5, 1)))
     IN JoinOrNotice(sel)
  /\ last' = 16
  /\ err' = "none"
  /\ UNCHANGED << data, exceeds, stacks, airviols, cps, cps_map, month,
                  facilities, med, lead, by_date, trend, trend_month,
                  trend_lead, map_of_facilities >>

\* cell 18
MapAirFacilities ==
  /\ last \in {16, 18}
  /\ MakeMap
  /\ last' = 18
  /\ stdout' = ""
  /\ UNCHANGED << data, exceeds, stacks, airviols, cps, cps_map, month,
                  facilities, med, lead, by_date, echo_data, trend,
                  trend_month, trend_lead >>

\* ------------------------------------------------------------ water discharges
\* cell 20: exceeds is bound to the very DataFrame data is bound to
FetchExceedances ==
  /\ last = 3
  /\ data' \in SeqsUpTo(WaterRows, MaxRows)
  /\ exceeds' = data'
  /\ last' = 20
  /\ err' = "none"
  /\ stdout' = ""
  /\ UNCHANGED << stacks, airviols, cps, cps_map, month, facilities,
                  med, lead, by_date, latest, echo_data, trend, trend_month,
                  trend_lead, map_of_facilities >>

\* cell 22: the column assignment on exceeds writes the DataFrame shared with data
ChartExceedances ==
  /\ last \in {20, 22}
  /\ exceeds' = ParseColumn(exceeds)
  /\ data' = exceeds'
  /\ month' = MonthlyCount(exceeds', "val")
  /\ Baselines(month')
  /\ last' = 22
  /\ stdout' = ""
  /\ UNCHANGED << stacks, airviols, cps, cps_map, facilities, med,
                  lead, by_date, latest, echo_data, trend_lead,
                  map_of_facilities >>

\* cell 24
ChartFacilitiesExceeding ==
  /\ last \in {22, 24}
  /\ facilities' = FormatIndex(FilterApril(resample_sum(groupby_nunique(exceeds))))
  /\ Baselines(facilities')
  /\ last' = 24
  /\ stdout' = ""
  /\ UNCHANGED << data, exceeds, stacks, airviols, cps, cps_map, month, med,
                  lead, by_date, latest, echo_data, trend_lead,
                  map_of_facilities >>

\* cell 26
ChartMedianExceedance ==
  /\ last \in {24, 26}
  /\ med' = FormatIndex(FilterApril(resample_median(exceeds)))
  /\ Baselines(med')
  /\ last' = 26
  /\ stdout' = ""
  /\ UNCHANGED << data, exceeds, stacks, airviols, cps, cps_map, month,
                  facilities, lead, by_date, latest, echo_data, trend_lead,
                  map_of_facilities >>

\* cell 28: the recent-trend mean is bound to trend_lead here
ChartLead ==
  /\ last \in {26, 28}
  /\ exceeds' = ParseColumn(exceeds)
  /\ data' = exceeds'
  /\ lead' = MonthlyCount(SelectSeq(exceeds', LAMBDA r : Contains(r, "Lead")),
                          "desc")
  /\ trend' = mean(lead')
  /\ IF HasRecent(lead')
     THEN trend_lead' = RecentTrend(lead') /\ err' = "none"
     ELSE trend_lead' = trend_lead /\ err' = "KeyError"
  /\ last' = 28
  /\ stdout' = ""
  /\ UNCHANGED << stacks, airviols, cps, cps_map, month, facilities, med,
                  by_date, latest, echo_data, trend_month, map_of_facilities >>

\* ------------------------------------------------------------ reporting
\* cell 30
FetchNonReceipt ==
  /\ last = 3
  /\ data' \in SeqsUpTo(RncRows, MaxRows)
  /\ last' = 30
  /\ err' = "none"
  /\ stdout' = ""
  /\ UNCHANGED << exceeds, stacks, airviols, cps, cps_map, month, facilities,
                  med, lead, by_date, latest, echo_data, trend, trend_month,
                  trend_lead, map_of_facilities >>

\* cell 32: by_date keeps the DatetimeIndex of the monthly bins
OrganizeByDate ==
  /\ last \in {30, 32}
  /\ data' = ParseColumn(data)
  /\ by_date' = [index |-> "DatetimeIndex",
                 rows  |-> FilterApril(resample_sum(groupby_count(data', "val")))]
  /\ last' = 32
  /\ err' = "none"
  /\ stdout' = ""
  /\ UNCHANGED << exceeds, stacks, airviols, cps, cps_map, month, facilities,
                  med, lead, latest, echo_data, trend, trend_month,
                  trend_lead, map_of_facilities >>

\* cell 34: the index of by_date is overwritten in place by its strftime
\* labels; an Index of labels has no strftime and the first line raises
\* AttributeError
PlotByDate ==
  /\ last \in {32, 34}
  /\ IF by_date.index = "DatetimeIndex"
     THEN /\ by_date' = [index |-> "Index", rows |-> FormatIndex(by_date.rows)]
          /\ Baselines(by_date'.rows)
     ELSE /\ err' = "AttributeError"
          /\ UNCHANGED << by_date, trend, trend_month >>
  /\ last' = 34
  /\ stdout' = ""
  /\ UNCHANGED << data, exceeds, stacks, airviols, cps, cps_map, month,
                  facilities, med, lead, latest, echo_data, trend_lead,
                  map_of_facilities >>

\* cell 36
JoinWaterFacilities ==
  /\ last \in {34, 36}
  /\ LET sel == SelectSeq(data, LAMBDA r :
                    /\ DateLeq(Timestamp(2019, 1, 1), r.date)
                    /\ DateLt(r.date, Timestamp(AnalysisYear, 5, 1)))
     IN JoinOrNotice(sel)
  /\ last' = 36
  /\ err' = "none"
  /\ UNCHANGED << data, exceeds, stacks, airviols, cps, cps_map, month,
                  facilities, med, lead, by_date, trend, trend_month,
                  trend_lead, map_of_facilities >>

\* cell 38
MapWaterFacilities ==
  /\ last \in {36, 38}
  /\ MakeMap
  /\ last' = 38
  /\ stdout' = ""
  /\ UNCHANGED << data, exceeds, stacks, airviols, cps, cps_map, month,
                  facilities, med, lead, by_date, echo_data, trend,
                  trend_month, trend_lead >>

RestartKernel ==
  /\ last # 3
  /\ last' = 3
  /\ err' = "none"
  /\ stdout' = ""
  /\ data' = <<>>
  /\ exceeds' = <<>>
  /\ stacks' = <<>>
  /\ airviols' = <<>>
  /\ cps' = <<>>
  /\ cps_map' = <<>>
  /\ month' = <<>>
  /\ facilities' = <<>>
  /\ med' = <<>>
  /\ lead' = <<>>
  /\ by_date' = NoSeries
  /\ latest' = [joined |-> FALSE, rows |-> <<>>]
  /\ echo_data' = <<>>
  /\ trend' = NaNMean
  /\ trend_month' = NaNMean
  /\ trend_lead' = NaNMean
  /\ map_of_facilities' = <<>>

Next ==
  \/ FetchStackTests
  \/ ChartStackTests
  \/ FetchAirViolations
  \/ ChartAirViolations
  \/ ChartCriteriaPollutants
  \/ JoinAirFacilities
  \/ MapAirFacilities
  \/ FetchExceedances
  \/ ChartExceedances
  \/ ChartFacilitiesExceeding
  \/ ChartMedianExceedance
  \/ ChartLead
  \/ FetchNonReceipt
  \/ OrganizeByDate
  \/ PlotByDate
  \/ JoinWaterFacilities
  \/ MapWaterFacilities
  \/ RestartKernel

Spec == Init /\ [][Next]_vars

\* ------------------------------------------------------------ the map cells
\* The two map cells on their own, started from the states the join cells
\* leave behind for a fetched table of up to MapRows records of April of the
\* analysis year over three facilities.
MapRows == 4

MapFacs == {"F1", "F2", "F3"}

MapFacAttrs(id) ==
  [name : {<<"Acme Plant">>}, lat : {<<>>, <<40>>}, lon : {<<>>, <<-74>>},
   qtrs : {IF id = "F1" THEN <<0>> ELSE IF id = "F2" THEN <<1>> ELSE <<2>>}]

MapEchoTables ==
  UNION {{e \in [S -> UNION {MapFacAttrs(id) : id \in S}] :
            \A id \in S : e[id] \in MapFacAttrs(id)} : S \in SUBSET MapFacs}

MapAirRows ==
  {Row(id, AnalysisYear, 5, <<"HPV">>, <<"Sulfur", "dioxide">>) : id \in MapFacs}

MapRncRows == {Row(id, AnalysisYear, 5, <<"N">>, <<>>) : id \in MapFacs}

\* the state after cells 10, 12, 14, 16 (air) or 30, 32, 34, 36 (reporting)
InitMap ==
  \E air \in BOOLEAN, e \in MapEchoTables :
    \E raw \in SeqsUpTo(IF air THEN MapAirRows ELSE MapRncRows, MapRows) :
      /\ Len(raw) > 0
      /\ last = IF air THEN 16 ELSE 36
      /\ err = "none"
      /\ stdout = ""
      /\ data = ParseColumn(raw)
      /\ exceeds = <<>>
      /\ stacks = <<>>
      /\ airviols = IF air THEN MonthlyCount(data, "val") ELSE <<>>
      /\ cps_map = IF air THEN data ELSE <<>>
      /\ cps = IF air THEN MonthlyCount(cps_map, "desc") ELSE <<>>
      /\ month = <<>>
      /\ facilities = <<>>
      /\ med = <<>>
      /\ lead = <<>>
      /\ by_date = IF air THEN NoSeries
                   ELSE [index |-> "Index", rows |-> MonthlyCount(data, "val")]
      /\ echo_data = e
      /\ latest = [joined |-> TRUE, rows |-> join(data, e)]
      /\ trend = IF air THEN mean(cps) ELSE mean(by_date.rows)
      /\ trend_month = NaNMean
      /\ trend_lead = NaNMean
      /\ map_of_facilities = <<>>

NextMap ==
  \/ MapAirFacilities
  \/ MapWaterFacilities

SpecMap == InitMap /\ [][NextMap]_vars

\* ------------------------------------------------------------ properties
ChartCells == {8, 12, 14, 22, 24, 26, 28, 34}

FetchCells == {6, 10, 20, 30}

\* the MonthSeries of the cell that ran last (cell 32 builds the one cell 34 plots)
CurrentSeries ==
  CASE last = 8  -> stacks
    [] last = 12 -> airviols
    [] last = 14 -> cps
    [] last = 22 -> month
    [] last = 24 -> facilities
    [] last = 26 -> med
    [] last = 28 -> lead
    [] last \in {32, 34} -> by_date.rows
    [] OTHER -> <<>>

\* the observations that series was aggregated from
CurrentSource ==
  CASE last \in {8, 12, 32, 34} -> data
    [] last = 14 -> cps_map
    [] last \in {22, 24, 26} -> exceeds
    [] last = 28 -> SelectSeq(exceeds, LAMBDA r : r.desc = <<"Lead">>)
    [] OTHER -> <<>>

\* the recent-trend baseline of the cell that ran last
CurrentRecent == IF last = 28 THEN trend_lead ELSE trend_month

SameMean(a, b) ==
  \/ a.n = 0 /\ b.n = 0
  \/ a.n > 0 /\ b.n > 0 /\ a.sum * b.n = b.sum * a.n

EntryYear(e) == e.key.f[1]

EntryYears(s) == {EntryYear(s[i]) : i \in DOMAIN s}

\* the rows of t dated in the year and month of entry e
RowsOfEntry(t, e) ==
  {j \in DOMAIN t : t[j].date.kind = "ts" /\ t[j].date.f[1] = e.key.f[1]
                    /\ t[j].date.f[2] = e.key.f[2]}

Last3(s) == SubSeq(s, Len(s) - 2, Len(s))

C2_DistinctFacilitiesPerMonth ==
  last = 24
    => \A i \in DOMAIN facilities :
         facilities[i].value =
           Cardinality({exceeds[j].id : j \in RowsOfEntry(exceeds, facilities[i])})

\* C3 as stated: the MonthSeries has exactly one entry per year that has an
\* observation in the target month, and no entry for any other year.
C3_Original ==
  last \in ChartCells \cup {32}
    => /\ EntryYears(CurrentSeries) =
            {CurrentSource[j].date.f[1] : j \in DOMAIN CurrentSource}
       /\ Len(CurrentSeries) = Cardinality(EntryYears(CurrentSeries))

\* C3 (amended): the MonthSeries has exactly one entry for every year from
\* the year of the earliest observation to the year of the latest one (the
\* observations all being of the target month), hence also for the years in
\* between that have no observation; such an entry carries 0, or NaN in the
\* median series.
C3_OneEntryPerYearOfSpan ==
  last \in ChartCells \cup {32}
    => LET s  == CurrentSeries
           ys == {CurrentSource[j].date.f[1] : j \in DOMAIN CurrentSource}
       IN /\ EntryYears(s) = {y \in Years : \E a, b \in ys : a <= y /\ y <= b}
          /\ Len(s) = Cardinality(EntryYears(s))
          /\ \A i \in DOMAIN s :
               EntryYear(s[i]) \notin ys
                 => IF last = 26 THEN s[i].nan ELSE s[i].value = 0 /\ ~s[i].nan

\* C3 witness: a series with an entry for a year without any observation
C3_Witness ==
  /\ last \in ChartCells \cup {32}
  /\ \E i \in DOMAIN CurrentSeries :
       EntryYear(CurrentSeries[i]) \notin
         {CurrentSource[j].date.f[1] : j \in DOMAIN CurrentSource}

\* C4: with the count aggregator every bar is the number of observations
\* dated in its year-month, null counted values included.
C4_CountIsNumberOfObservations ==
  last \in {8, 12, 22, 32, 34}
    => \A i \in DOMAIN CurrentSeries :
         CurrentSeries[i].value =
           Cardinality(RowsOfEntry(CurrentSource, CurrentSeries[i]))

\* C5: an empty selection of latest observations skips the join and prints
\* the notice, and the map cell that follows does not raise.
C5_EmptySelectionNeverFails ==
  /\ (last \in {16, 36} /\ latest.rows = <<>>)
       => (~latest.joined /\ stdout = Notice /\ err = "none")
  /\ (last \in {18, 38} /\ ~latest.joined) => err = "none"

\* the rows the facility cell selects from, and its date range
InLatestRange(r) ==
  /\ DateLeq(Timestamp(IF last = 16 THEN 2020 ELSE 2019,
                       IF last = 16 THEN 4 ELSE 1, 1), r.date)
  /\ DateLt(r.date, Timestamp(2020, 5, 1))

LatestSource == IF last = 16 THEN cps_map ELSE data

\* C6 as stated: every row of the merged result has a matching facility row
\* (a violation row without a match is not in the merged result).
C6_Original ==
  (last \in {16, 36} /\ latest.joined)
    => \A i \in DOMAIN latest.rows : latest.rows[i].id \in DOMAIN echo_data

\* C6 (amended): the join is an equi-join on the facility identifier with
\* left-join semantics: every selected violation row is in the merged
\* result, in order; a row whose identifier is in the facility table carries
\* that facility's fields and a row without a match carries NaN in them.
C6_LeftJoin ==
  (last \in {16, 36} /\ latest.joined)
    => LET sel == SelectSeq(LatestSource, InLatestRange)
       IN /\ Len(latest.rows) = Len(sel)
          /\ \A i \in DOMAIN latest.rows :
               LET m == latest.rows[i]
               IN /\ m.id = sel[i].id /\ m.date = sel[i].date
                  /\ IF m.id \in DOMAIN echo_data
                     THEN /\ m.lat = echo_data[m.id].lat
                          /\ m.lon = echo_data[m.id].lon
                          /\ m.name = echo_data[m.id].name
                          /\ m.qtrs = echo_data[m.id].qtrs
                     ELSE m.lat = <<>> /\ m.lon = <<>> /\ m.name = <<>>
                          /\ m.qtrs = <<>>

\* C6 witness: a merged result holding a row without a matching facility
\* next to a row with one
C6_Witness ==
  /\ last \in {16, 36}
  /\ latest.joined
  /\ \E i \in DOMAIN latest.rows : latest.rows[i].id \notin DOMAIN echo_data
  /\ \E i \in DOMAIN latest.rows : latest.rows[i].id \in DOMAIN echo_data

\* C7 as stated: a run of an aggregation cell leaves the fetched table, and
\* every variable bound to it, as it was.
C7_Original ==
  [][last' \in ChartCells \cup {32} => (data' = data /\ exceeds' = exceeds)]_vars

\* C7 (amended): a run of any cell after the fetch changes nothing of the
\* fetched table but its timestamp column, where each date text is replaced
\* by the Timestamp of the same day; the rows, their order and every other
\* column stay, and exceeds stays the same table as data.
C7_OnlyTimestampColumnChanges ==
  [][last' \notin FetchCells \cup {3}
       => /\ Len(data') = Len(data)
          /\ \A i \in DOMAIN data :
               /\ data'[i].id = data[i].id
               /\ data'[i].val = data[i].val
               /\ data'[i].desc = data[i].desc
               /\ data'[i].date.kind = "ts"
               /\ data'[i].date.f =
                    IF data[i].date.kind = "ts" THEN data[i].date.f
                    ELSE << data[i].date.f[3], data[i].date.f[1],
                            data[i].date.f[2] >>
          /\ last' \in 22..28 => exceeds' = data']_vars

\* C7 witness: an aggregation has run on a non-empty table, whose dates are
\* Timestamps now, also under the name exceeds
C7_Witness ==
  /\ last = 22
  /\ data # <<>>
  /\ exceeds = data
  /\ \A i \in DOMAIN data : data[i].date.kind = "ts"

\* C8: a chart cell that completed and is run a second time, nothing else
\* being run in between, completes again with the same MonthSeries and the
\* same two baselines.
C8_RerunGivesSameResult ==
  [][(last \in ChartCells /\ last' = last /\ err = "none")
       => /\ err' = "none"
          /\ CurrentSeries' = CurrentSeries
          /\ trend' = trend
          /\ CurrentRecent' = CurrentRecent]_vars

\* C9: the stack tests chart cell run on an empty table yields an empty
\* MonthSeries and completes without an exception.
C9_EmptyInputCompletes ==
  (last = 8 /\ data = <<>>) => (stacks = <<>> /\ err = "none")

AllSeries ==
  {stacks, airviols, cps, month, facilities, med, lead, by_date.rows}

\* C10: every entry of every MonthSeries has a label whose month component
\* is the target month.
C10_EveryLabelIsTargetMonth ==
  \A s \in AllSeries : \A i \in DOMAIN s : s[i].key.f[2] = TargetMonth

\* C10 witness: a chart cell has built a series over several years, whose
\* monthly bins in between were not of the target month
C10_Witness ==
  /\ last \in ChartCells
  /\ Len(CurrentSeries) >= 2
  /\ \A i \in DOMAIN CurrentSeries : CurrentSeries[i].key.kind = "str"

\* C11: the entries of every MonthSeries are strictly increasing in year (so
\* chronological and without a repeated label), whatever the order of the
\* observations in the fetched table.
C11_StrictlyIncreasingYears ==
  \A s \in AllSeries :
    \A i, j \in DOMAIN s : i < j => EntryYear(s[i]) < EntryYear(s[j])

\* C11 witness: a series of several entries built from a table whose rows
\* are not in chronological order
C11_Witness ==
  /\ last \in ChartCells
  /\ Len(CurrentSeries) >= 2
  /\ Len(data) >= 2
  /\ DateLt(data[2].date, data[1].date)

\* the entries of the years before the analysis year
PriorEntries(s) == SelectSeq(s, LAMBDA e : EntryYear(e) < AnalysisYear)

\* the entries of the years before the analysis year that hold a value
PriorValues(s) == SelectSeq(PriorEntries(s), LAMBDA e : ~e.nan)

\* C12: a chart cell whose MonthSeries holds fewer than 3 buckets with a value
\* for the years before the analysis year ends with an error; a cell that
\* completes has taken its recent-trend mean over three values.
C12_FewerThanThreeBucketsFails ==
  last \in ChartCells
    => /\ Len(PriorValues(CurrentSeries)) < 3 => err # "none"
       /\ err = "none" => CurrentRecent.n = 3

\* C14: the red line (trend) of a chart is the mean over the entries of the
\* years before the analysis year, the analysis year's April left out.
C14_TrendIsMeanOfPreviousAprils ==
  last \in ChartCells
    => SameMean(trend, mean(PriorEntries(CurrentSeries)))

\* C15: after the map cell's missing-data filter every row of latest has a
\* latitude and a longitude.
C15_LatAndLonPresent ==
  (last \in {18, 38} /\ latest.joined)
    => \A i \in DOMAIN latest.rows :
         ~IsNull(latest.rows[i].lat) /\ ~IsNull(latest.rows[i].lon)

\* C16: the selection that feeds a facility map holds only observations
\* dated in April of the analysis year.
C16_LatestIsAprilOfAnalysisYear ==
  last \in {16, 18, 36, 38}
    => \A i \in DOMAIN latest.rows :
         /\ latest.rows[i].date.f[1] = AnalysisYear
         /\ latest.rows[i].date.f[2] = TargetMonth

\* the records the join cell selected for the map
Selected ==
  IF last \in {16, 18}
  THEN SelectSeq(cps_map, LAMBDA r :
           /\ DateLeq(Timestamp(AnalysisYear, 4, 1), r.date)
           /\ DateLt(r.date, Timestamp(AnalysisYear, 5, 1)))
  ELSE SelectSeq(data, LAMBDA r :
           /\ DateLeq(Timestamp(2019, 1, 1), r.date)
           /\ DateLt(r.date, Timestamp(AnalysisYear, 5, 1)))

\* C13: a map that was drawn holds one marker per facility: no two markers
\* belong to the same facility, however many records the facility has in the
\* mapped selection.
C13_OneMarkerPerFacility ==
  (last \in {18, 38} /\ err = "none")
    => \A i, j \in DOMAIN map_of_facilities :
         map_of_facilities[i].id = map_of_facilities[j].id => i = j

\* C17: after the join and the map cell's missing-data filter no row of
\* latest has an identifier without a match in the facility table, and every
\* marker of a map that was drawn belongs to a matched facility.
C17_OnlyMatchedFacilitiesMapped ==
  (last \in {18, 38} /\ latest.joined)
    => /\ \A i \in DOMAIN latest.rows : latest.rows[i].id \in DOMAIN echo_data
       /\ err = "none" =>
            \A i \in DOMAIN map_of_facilities :
              map_of_facilities[i].id \in DOMAIN echo_data

\* C17 witness: a map was drawn from a selection that held a record of a
\* facility missing from the facility table, and the record is gone
C17_Witness ==
  /\ last \in {18, 38}
  /\ err = "none"
  /\ Len(map_of_facilities) > 0
  /\ \E i \in DOMAIN Selected : Selected[i].id \notin DOMAIN echo_data
  /\ Len(latest.rows) < Len(Selected)

====
